---- MODULE Spec2Model ----
(***************************************************************************)
(* State-machine model of the live voice session hook (useLiveAgent):      *)
(* connect / cleanup, the transport callbacks, the playback timeline and   *)
(* the volume monitoring interval.                                         *)
(*                                                                         *)
(* Every connect() invocation k creates its own objects: an output and an  *)
(* input audio context, a microphone stream, a transport and an interval   *)
(* timer.  The maps outCtx, inCtx, stream, transport, timer, capture give  *)
(* the status of the objects of invocation k; the refs of the hook hold    *)
(* the index of the object they point at, 0 standing for null.             *)
(* Times are in integer ticks; the persona speed is kept doubled (1 = 0.5, *)
(* 2 = 1.0, 3 = 1.5) so that duration / rate stays an integer.             *)
(*                                                                         *)
(* Beside the hook the module holds the small state machines of the rest   *)
(* of the studio: the story player and its cast, the podcast retry loop,   *)
(* the voice preview of the builder and the views of the App.  Each has    *)
(* its own next-state relation and leaves the state of the others alone.   *)
(***************************************************************************)
EXTENDS Integers, Sequences, FiniteSets

\* ---------------------------------------------------------------- bounds
MaxConnects == 2
MaxTime == 2
MaxMsgs == 3
MaxFrames == 3
MaxSamples == 2
SubSteps == 2

MaxSources == 3
MaxStoryTime == 2
MaxCastIds == 6
MaxTurns == 2
MaxPreviews == 4
MaxUsers == 2
MaxAgents == 2
MaxProjects == 2

Inv == 1..MaxConnects
Sources == 1..MaxSources
Durs == {3, 6}
Speeds == {0, 1, 2, 3}
Levels == {0, 3}
OutputLevels == {0, 2, 3}
Bytes == {0, 2, 3, 255}

NoError == "null"
FailedToInitialize == "Failed to initialize"
ConnectionError == "Connection Error"

Max(a, b) == IF a >= b THEN a ELSE b

VARIABLES
  mounted,            \* the component owning the hook is mounted
  speed,              \* agent.voiceSettings.speed, doubled
  pc,                 \* position of each connect() invocation
  outCtx, inCtx,      \* status of the audio contexts of invocation k
  stream,             \* status of the microphone stream of invocation k
  transport,          \* status of the transport of invocation k
  timer,              \* status of the interval timer of invocation k
  capture,            \* status of the capture nodes installed by onopen of k
  ctxTime,            \* currentTime of the output context of invocation k
  audioContextRef, inputContextRef, streamRef, sessionRef,
  processorRef, sourceRef, inputAnalyserRef, outputAnalyserRef,
  volumeIntervalRef,
  nextStartTimeRef,
  isConnected, isSpeaking, isListening, volumeLevels, error,
  decoding,           \* onmessage handlers suspended in decodeAudioData
  started,            \* the number of source.start calls made so far
  last,               \* the latest source.start call: the start time passed,
                      \* the buffer, the clock at the call, and the history
                      \* of the run of back-to-back sources it ends
  msgs,               \* inbound messages delivered so far
  resetSinceStart,    \* history: interruption handled since the last start
  resetSinceAudio,    \* history: interruption handled, no audio event since
  disconnectRun,      \* history: disconnect() calls made in a row, up to 2
  captureCtx,         \* the input context the capture nodes of k were made in
  eventDriven,        \* history: the inbound event that wrote isSpeaking last
  resolved,           \* the promise of the transport of k has resolved
  pending,            \* then-callbacks of k registered on the pending promise
  sent,               \* frames handed to session.sendRealtimeInput of k
  captured,           \* the number of onaudioprocess callbacks of k so far
  inputData,          \* the samples of a captured frame
  pcmBlob,            \* what createPcmBlob made of them
  audioBuffer,        \* what decodeAudioData made of that
  isPlaying, isPaused, isLoading,     \* story player state
  voiceSourceRef, isManualStopRef, savedOffsetRef, startTimeRef,
  voiceSource,        \* status of the buffer source made by the s-th play
  stoppedManually,    \* history: the sources stopPlayback called stop() on
  startOffset,        \* history: the offset passed to the latest start
  storyTime,          \* currentTime of the story player's audio context
  cast,               \* the ids of the story cast
  castIds,            \* the number of cast ids made so far
  tts,                \* the running callTTSWithRetry: its position, i,
                      \* lastError, what it returned or threw, and the
                      \* history of its attempts and of its last delay
  ttsTurn,            \* the number of callTTSWithRetry calls made so far
  previewingVoiceId,  \* AgentBuilder state, 0 standing for null
  inFlight,           \* handlePreviewVoice invocations not yet at finally
  cooldowns,          \* pending cooldown timeouts
  previewRequests,    \* history: preview requests made so far
  previewPlayed,      \* history: preview sources started so far
  view, currentUser, activeAgent, activeProject,     \* App state
  authPending,        \* the users whose login is awaiting the store
  loggedOut           \* history: handleLogout has run

objs == <<pc, outCtx, inCtx, stream, transport, timer, capture, ctxTime>>
refs == <<audioContextRef, inputContextRef, streamRef, sessionRef,
          processorRef, sourceRef, inputAnalyserRef, outputAnalyserRef,
          volumeIntervalRef>>
flags == <<isConnected, isSpeaking, isListening, volumeLevels, error>>
play == <<nextStartTimeRef, decoding, started, last, msgs, resetSinceStart,
          resetSinceAudio>>
uplink == <<resolved, pending, sent, captured>>
pcm == <<inputData, pcmBlob, audioBuffer>>
player == <<isPlaying, isPaused, isLoading, voiceSourceRef, isManualStopRef,
            savedOffsetRef, startTimeRef, voiceSource, stoppedManually,
            startOffset, storyTime>>
casting == <<cast, castIds>>
podcast == <<tts, ttsTurn>>
preview == <<previewingVoiceId, inFlight, cooldowns, previewRequests,
             previewPlayed>>
app == <<view, currentUser, activeAgent, activeProject, authPending,
         loggedOut>>
studio == <<player, casting, podcast, preview, app>>
io == <<captureCtx, eventDriven, uplink, pcm, studio>>
hook == <<mounted, speed, objs, refs, flags, play, disconnectRun,
          captureCtx, eventDriven, uplink, pcm>>
vars == <<mounted, speed, objs, refs, flags, play, disconnectRun, io>>

\* The value of last before any source has been started.
NoSource ==
  [start |-> 0, dur |-> 0, rate |-> 2, at |-> 0, ctx |-> 0, reset |-> FALSE,
   first |-> FALSE, arr |-> 0, run |-> 0, runStart |-> 0, runSpan |-> 0]

ZeroVolume == [input |-> 0, output |-> 0]

\* No blob made yet, no buffer decoded yet.
NoBlob == [data |-> <<>>, mimeType |-> "none"]
NoBuffer == [sampleRate |-> 0, samples |-> <<>>]

\* The story editor as mounted: nothing playing, the default cast of one.
InitPlayer ==
  /\ isPlaying = FALSE /\ isPaused = FALSE /\ isLoading = FALSE
  /\ voiceSourceRef = 0 /\ isManualStopRef = FALSE
  /\ savedOffsetRef = 0 /\ startTimeRef = 0
  /\ voiceSource = [s \in Sources |-> "none"]
  /\ stoppedManually = {}
  /\ startOffset = 0
  /\ storyTime = 0

InitCast ==
  /\ cast = {1}
  /\ castIds = 1

\* No callTTSWithRetry made yet.
NoCall ==
  [pc |-> "idle", i |-> 0, lastError |-> "undefined", response |-> 0,
   thrown |-> "none", log |-> <<>>, delay |-> 0]

InitPodcast ==
  /\ tts = NoCall
  /\ ttsTurn = 0

InitPreview ==
  /\ previewingVoiceId = 0
  /\ inFlight = <<>>
  /\ cooldowns = 0
  /\ previewRequests = 0
  /\ previewPlayed = 0

\* activeProject when it is undefined.
NoProject == [id |-> 0, agent |-> 0, isPodcast |-> FALSE]

InitApp ==
  /\ view = "AUTH"
  /\ currentUser = 0 /\ activeAgent = 0 /\ activeProject = NoProject
  /\ authPending = {}
  /\ loggedOut = FALSE

InitStudio ==
  /\ InitPlayer
  /\ InitCast
  /\ InitPodcast
  /\ InitPreview
  /\ InitApp

InitHook ==
  /\ mounted = TRUE
  /\ speed \in Speeds
  /\ pc = [k \in Inv |-> "idle"]
  /\ outCtx = [k \in Inv |-> "none"]
  /\ inCtx = [k \in Inv |-> "none"]
  /\ stream = [k \in Inv |-> "none"]
  /\ transport = [k \in Inv |-> "none"]
  /\ timer = [k \in Inv |-> "none"]
  /\ capture = [k \in Inv |-> "none"]
  /\ ctxTime = [k \in Inv |-> 0]
  /\ audioContextRef = 0 /\ inputContextRef = 0 /\ streamRef = 0
  /\ sessionRef = 0 /\ processorRef = 0 /\ sourceRef = 0
  /\ inputAnalyserRef = 0 /\ outputAnalyserRef = 0
  /\ volumeIntervalRef = 0
  /\ nextStartTimeRef = 0
  /\ isConnected = FALSE /\ isSpeaking = FALSE /\ isListening = FALSE
  /\ volumeLevels = ZeroVolume
  /\ error = NoError
  /\ decoding = <<>>
  /\ started = 0
  /\ last = NoSource
  /\ msgs = 0
  /\ resetSinceStart = FALSE
  /\ resetSinceAudio = FALSE
  /\ disconnectRun = 0
  /\ captureCtx = [k \in Inv |-> 0]
  /\ eventDriven = "none"
  /\ resolved = [k \in Inv |-> FALSE]
  /\ pending = [k \in Inv |-> <<>>]
  /\ sent = [k \in Inv |-> <<>>]
  /\ captured = [k \in Inv |-> 0]
  /\ pcmBlob = NoBlob /\ audioBuffer = NoBuffer
  /\ InitStudio

Init == InitHook /\ inputData = <<>>

\* ------------------------------------------------------------- cleanup
\* The part of the state cleanup() reads and writes, as one record.
Cur ==
  [processorRef |-> processorRef, sourceRef |-> sourceRef,
   streamRef |-> streamRef, inputContextRef |-> inputContextRef,
   audioContextRef |-> audioContextRef, sessionRef |-> sessionRef,
   volumeIntervalRef |-> volumeIntervalRef,
   capture |-> capture, stream |-> stream, inCtx |-> inCtx,
   outCtx |-> outCtx, timer |-> timer,
   isConnected |-> isConnected, isListening |-> isListening,
   isSpeaking |-> isSpeaking, volumeLevels |-> volumeLevels]

\* f with the object a non-null ref r points at set to status v.
Release(f, r, v) == IF r = 0 THEN f ELSE [f EXCEPT ![r] = v]

\* cleanup() that forgets to reset the speaking flag and the volume sample.
cleanupKeepsSpeaking(s) ==
  [s EXCEPT
     !.capture = Release(Release(s.capture, s.processorRef, "detached"),
                         s.sourceRef, "detached"),
     !.processorRef = 0, !.sourceRef = 0,
     !.stream = Release(s.stream, s.streamRef, "stopped"), !.streamRef = 0,
     !.inCtx = Release(s.inCtx, s.inputContextRef, "closed"),
     !.inputContextRef = 0,
     !.outCtx = Release(s.outCtx, s.audioContextRef, "closed"),
     !.audioContextRef = 0,
     !.sessionRef = 0,
     !.timer = Release(s.timer, s.volumeIntervalRef, "cancelled"),
     !.volumeIntervalRef = 0,
     !.isConnected = FALSE, !.isListening = FALSE]

\* cleanup(): every non-null ref is released and nulled, the flags are zeroed.
\* The transport is not closed, only its handle is dropped; the analyser refs
\* and nextStartTimeRef are left as they are.
cleanup(s) ==
  [s EXCEPT
     !.capture = Release(Release(s.capture, s.processorRef, "detached"),
                         s.sourceRef, "detached"),
     !.processorRef = 0, !.sourceRef = 0,
     !.stream = Release(s.stream, s.streamRef, "stopped"), !.streamRef = 0,
     !.inCtx = Release(s.inCtx, s.inputContextRef, "closed"),
     !.inputContextRef = 0,
     !.outCtx = Release(s.outCtx, s.audioContextRef, "closed"),
     !.audioContextRef = 0,
     !.sessionRef = 0,
     !.timer = Release(s.timer, s.volumeIntervalRef, "cancelled"),
     !.volumeIntervalRef = 0,
     !.isConnected = FALSE, !.isListening = FALSE, !.isSpeaking = FALSE,
     !.volumeLevels = ZeroVolume]

\* The primed state is the record s.
Becomes(s) ==
  /\ processorRef' = s.processorRef /\ sourceRef' = s.sourceRef
  /\ streamRef' = s.streamRef /\ inputContextRef' = s.inputContextRef
  /\ audioContextRef' = s.audioContextRef /\ sessionRef' = s.sessionRef
  /\ volumeIntervalRef' = s.volumeIntervalRef
  /\ capture' = s.capture /\ stream' = s.stream /\ inCtx' = s.inCtx
  /\ outCtx' = s.outCtx /\ timer' = s.timer
  /\ isConnected' = s.isConnected /\ isListening' = s.isListening
  /\ isSpeaking' = s.isSpeaking /\ volumeLevels' = s.volumeLevels

\* disconnect(): the hook returns cleanup under this name.
Disconnect ==
  /\ mounted
  /\ disconnectRun' = IF disconnectRun < 2 THEN disconnectRun + 1 ELSE 2
  /\ Becomes(cleanup(Cur))
  /\ UNCHANGED <<mounted, speed, pc, transport, ctxTime, inputAnalyserRef,
                 outputAnalyserRef, error, play>>
  /\ UNCHANGED io

\* The unmount effect: the component goes away and cleanup() runs.
Unmount ==
  /\ disconnectRun' = 0
  /\ mounted
  /\ mounted' = FALSE
  /\ Becomes(cleanup(Cur))
  /\ UNCHANGED <<speed, pc, transport, ctxTime, inputAnalyserRef,
                 outputAnalyserRef, error, play>>
  /\ UNCHANGED io

\* ------------------------------------------------------------- connect
\* The invocation index a new connect() call gets: the lowest unused one.
NextInvocation(k) == pc[k] = "idle" /\ \A j \in Inv : j < k => pc[j] # "idle"

\* connect() up to the await of getUserMedia: the error is cleared, the two
\* contexts and the analysers are created and stored, whatever the refs held.
Connect(k) ==
  /\ disconnectRun' = 0
  /\ mounted
  /\ NextInvocation(k)
  /\ error' = NoError
  /\ audioContextRef' = k /\ inputContextRef' = k
  /\ outputAnalyserRef' = k /\ inputAnalyserRef' = k
  /\ outCtx' = [outCtx EXCEPT ![k] = "open"]
  /\ inCtx' = [inCtx EXCEPT ![k] = "open"]
  /\ ctxTime' = [ctxTime EXCEPT ![k] = 0]
  /\ pc' = [pc EXCEPT ![k] = "awaitMic"]
  /\ UNCHANGED <<mounted, speed, stream, transport, timer, capture,
                 streamRef, sessionRef, processorRef, sourceRef,
                 volumeIntervalRef, isConnected, isSpeaking, isListening,
                 volumeLevels, play>>
  /\ UNCHANGED io

\* connect() when the constructor of the second context throws: the first
\* context is already stored, the catch block sets the error and cleans up.
ConnectContextFails(k) ==
  /\ disconnectRun' = 0
  /\ mounted
  /\ NextInvocation(k)
  /\ error' = FailedToInitialize
  /\ Becomes(cleanup([Cur EXCEPT !.audioContextRef = k,
                                 !.outCtx = [outCtx EXCEPT ![k] = "open"]]))
  /\ ctxTime' = [ctxTime EXCEPT ![k] = 0]
  /\ pc' = [pc EXCEPT ![k] = "contextFailed"]
  /\ UNCHANGED <<mounted, speed, transport, inputAnalyserRef,
                 outputAnalyserRef, play>>
  /\ UNCHANGED io

\* getUserMedia resolves: the stream is stored, the transport is created with
\* its callbacks, its promise is stored unawaited and the interval is started.
MicGranted(k) ==
  /\ disconnectRun' = 0
  /\ pc[k] = "awaitMic"
  /\ streamRef' = k
  /\ stream' = [stream EXCEPT ![k] = "live"]
  /\ transport' = [transport EXCEPT ![k] = "connecting"]
  /\ sessionRef' = k
  /\ volumeIntervalRef' = k
  /\ timer' = [timer EXCEPT ![k] = "active"]
  /\ pc' = [pc EXCEPT ![k] = "done"]
  /\ UNCHANGED <<mounted, speed, outCtx, inCtx, capture, ctxTime,
                 audioContextRef, inputContextRef, processorRef, sourceRef,
                 inputAnalyserRef, outputAnalyserRef, flags, play>>
  /\ UNCHANGED io

\* getUserMedia resolves but creating the client or the transport throws
\* synchronously: the catch block sets the error and cleans up.
MicGrantedConnectThrows(k) ==
  /\ disconnectRun' = 0
  /\ pc[k] = "awaitMic"
  /\ error' = FailedToInitialize
  /\ Becomes(cleanup([Cur EXCEPT !.streamRef = k,
                                 !.stream = [stream EXCEPT ![k] = "live"]]))
  /\ pc' = [pc EXCEPT ![k] = "connectThrew"]
  /\ UNCHANGED <<mounted, speed, transport, ctxTime, inputAnalyserRef,
                 outputAnalyserRef, play>>
  /\ UNCHANGED io

\* getUserMedia rejects (permission denied, no microphone): catch block.
MicDenied(k) ==
  /\ disconnectRun' = 0
  /\ pc[k] = "awaitMic"
  /\ error' = FailedToInitialize
  /\ Becomes(cleanup(Cur))
  /\ pc' = [pc EXCEPT ![k] = "micDenied"]
  /\ UNCHANGED <<mounted, speed, transport, ctxTime, inputAnalyserRef,
                 outputAnalyserRef, play>>
  /\ UNCHANGED io

\* --------------------------------------------------- transport callbacks
\* onopen of the transport of invocation k.
TransportOpen(k) ==
  /\ disconnectRun' = 0
  /\ transport[k] = "connecting"
  /\ transport' = [transport EXCEPT ![k] = "open"]
  /\ isConnected' = TRUE
  /\ isListening' = TRUE
  /\ IF inputContextRef = 0 \/ streamRef = 0
       THEN UNCHANGED <<sourceRef, processorRef, capture, captureCtx>>
       ELSE /\ sourceRef' = k
            /\ processorRef' = k
            /\ capture' = [capture EXCEPT ![k] = "attached"]
            /\ captureCtx' = [captureCtx EXCEPT ![k] = inputContextRef]
  /\ UNCHANGED <<mounted, speed, pc, outCtx, inCtx, stream, timer, ctxTime,
                 audioContextRef, inputContextRef, streamRef, sessionRef,
                 inputAnalyserRef, outputAnalyserRef, volumeIntervalRef,
                 isSpeaking, volumeLevels, error, play>>
  /\ UNCHANGED <<eventDriven, uplink, pcm, studio>>

\* The promise returned by ai.live.connect rejects.  connect() has stored
\* the promise without awaiting it, so no handler of the hook runs.
TransportRejected(k) ==
  /\ disconnectRun' = 0
  /\ transport[k] = "connecting"
  /\ transport' = [transport EXCEPT ![k] = "rejected"]
  /\ UNCHANGED <<mounted, speed, pc, outCtx, inCtx, stream, timer, capture,
                 ctxTime, refs, flags, play>>
  /\ UNCHANGED io

\* onerror of the transport of invocation k.
TransportError(k) ==
  /\ disconnectRun' = 0
  /\ transport[k] \in {"connecting", "open"}
  /\ transport' = [transport EXCEPT ![k] = "errored"]
  /\ error' = ConnectionError
  /\ Becomes(cleanup(Cur))
  /\ UNCHANGED <<mounted, speed, pc, ctxTime, inputAnalyserRef,
                 outputAnalyserRef, play>>
  /\ UNCHANGED io

\* onclose of the transport of invocation k.
TransportClose(k) ==
  /\ disconnectRun' = 0
  /\ transport[k] \in {"connecting", "open", "errored"}
  /\ transport' = [transport EXCEPT ![k] = "closed"]
  /\ Becomes(cleanup(Cur))
  /\ UNCHANGED <<mounted, speed, pc, ctxTime, inputAnalyserRef,
                 outputAnalyserRef, error, play>>
  /\ UNCHANGED io

\* ------------------------------------------------------------- playback
\* Inbound events: an optional audio payload (its decoded duration, 0 for
\* none) and the interrupted and turnComplete flags; the empty event is left
\* out, it changes nothing.
Messages ==
  {m \in [audio : {0} \cup Durs, interrupted : BOOLEAN,
          turnComplete : BOOLEAN] :
     m.audio # 0 \/ m.interrupted \/ m.turnComplete}

\* A fallback to half speed.
playbackRateHalf(s) == IF s = 0 THEN 1 ELSE s

\* source.playbackRate.value = agent.voiceSettings.speed || 1.0, doubled.
playbackRate(s) == IF s = 0 THEN 2 ELSE s

\* const rate = source.playbackRate.value || 1, doubled.
rate(p) == IF p = 0 THEN 2 ELSE p

\* An advance that is forgotten.
advanceNone(d, r) == 0

\* An advance that ignores the playback rate.
durationOnly(d, r) == d

\* audioBuffer.duration / rate, the rate being doubled.
advance(d, r) == (d * 2) \div r

\* The duration of the buffer decodeAudioData returns for a payload.
decodeAudioData(payload) == payload

\* The end of onmessage works on nextStartTimeRef and isSpeaking, taken here
\* as the record s.
\* An interruption that also stops the speaking flag.
onInterruptedStops(s) == [s EXCEPT !.nextStartTime = 0, !.isSpeaking = FALSE]

\* if (interrupted) nextStartTimeRef.current = 0.
onInterrupted(s) == [s EXCEPT !.nextStartTime = 0]

\* A turnComplete that is ignored.
onTurnCompleteIgnored(s) == s

\* if (turnComplete) setIsSpeaking(false).
onTurnComplete(s) == [s EXCEPT !.isSpeaking = FALSE]

\* The two trailing ifs of onmessage for the event m.
afterAudio(m, s) ==
  LET a == IF m.interrupted THEN onInterrupted(s) ELSE s
  IN IF m.turnComplete THEN onTurnComplete(a) ELSE a

\* onmessage of the transport of invocation k up to the await of the decode,
\* or to its end when the event has no audio or there is no output context.
OnMessage(k, m) ==
  /\ disconnectRun' = 0
  /\ transport[k] = "open"
  /\ msgs < MaxMsgs
  /\ msgs' = msgs + 1
  /\ IF m.audio # 0 /\ audioContextRef # 0
       THEN /\ isSpeaking' = TRUE
            /\ nextStartTimeRef' =
                 Max(nextStartTimeRef, ctxTime[audioContextRef])
            /\ decoding' = Append(decoding,
                 [tr |-> k, payload |-> m.audio,
                  interrupted |-> m.interrupted,
                  turnComplete |-> m.turnComplete,
                  arr |-> ctxTime[audioContextRef],
                  first |-> resetSinceAudio])
            /\ resetSinceAudio' = FALSE
            /\ eventDriven' = "audio"
            /\ UNCHANGED resetSinceStart
       ELSE /\ LET t == afterAudio(m, [nextStartTime |-> nextStartTimeRef,
                                       isSpeaking |-> isSpeaking])
               IN /\ nextStartTimeRef' = t.nextStartTime
                  /\ isSpeaking' = t.isSpeaking
            /\ resetSinceStart' = (m.interrupted \/ resetSinceStart)
            /\ resetSinceAudio' = (m.interrupted \/ resetSinceAudio)
            /\ eventDriven' =
                 IF m.turnComplete THEN "turnComplete" ELSE eventDriven
            /\ UNCHANGED decoding
  /\ UNCHANGED <<mounted, speed, objs, refs, isConnected, isListening,
                 volumeLevels, error, started, last>>
  /\ UNCHANGED <<captureCtx, uplink, pcm, studio>>

\* The time a started source of duration d takes to play at playbackRate p
\* (doubled): the output device plays it over duration / playbackRate.
Span(d, p) == (d * 2) \div p

RemoveAt(s, i) == SubSeq(s, 1, i - 1) \o SubSeq(s, i + 1, Len(s))

\* The rest of onmessage, once the decode of the i-th suspended handler has
\* completed.  createBufferSource on a null context and connect to the gain
\* node of another context throw, which ends the handler.
DecodeDone(i) ==
  /\ disconnectRun' = 0
  /\ i \in 1..Len(decoding)
  /\ decoding' = RemoveAt(decoding, i)
  /\ LET d == decoding[i]
         p == playbackRate(speed)
         Ahead == started > 0 /\ ctxTime[audioContextRef] < nextStartTimeRef
     IN IF audioContextRef = 0 \/ audioContextRef # d.tr
          THEN UNCHANGED <<nextStartTimeRef, started, last, isSpeaking,
                           resetSinceStart, resetSinceAudio, eventDriven>>
          ELSE /\ started' = started + 1
               /\ last' =
                    [start |-> nextStartTimeRef,
                     dur |-> decodeAudioData(d.payload), rate |-> p,
                     at |-> ctxTime[audioContextRef],
                     ctx |-> audioContextRef,
                     reset |-> resetSinceStart,
                     first |-> d.first, arr |-> d.arr,
                     run |-> IF Ahead THEN last.run + 1 ELSE 1,
                     runStart |-> IF Ahead THEN last.runStart
                                  ELSE nextStartTimeRef,
                     runSpan |-> (IF Ahead THEN last.runSpan ELSE 0)
                                 + Span(decodeAudioData(d.payload), p)]
               /\ LET t == afterAudio(d,
                            [nextStartTime |-> nextStartTimeRef
                               + advance(decodeAudioData(d.payload), rate(p)),
                             isSpeaking |-> isSpeaking])
                  IN /\ nextStartTimeRef' = t.nextStartTime
                     /\ isSpeaking' = t.isSpeaking
               /\ resetSinceStart' = d.interrupted
               /\ resetSinceAudio' = (d.interrupted \/ resetSinceAudio)
               /\ eventDriven' =
                    IF d.turnComplete THEN "turnComplete" ELSE eventDriven
  /\ UNCHANGED <<mounted, speed, objs, refs, isConnected, isListening,
                 volumeLevels, error, msgs>>
  /\ UNCHANGED <<captureCtx, uplink, pcm, studio>>

\* The device clock: currentTime of every open output context moves on.
ClockTick ==
  /\ disconnectRun' = 0
  /\ \E k \in Inv : outCtx[k] = "open"
  /\ \A k \in Inv : outCtx[k] = "open" => ctxTime[k] < MaxTime
  /\ ctxTime' = [k \in Inv |->
                   IF outCtx[k] = "open" THEN ctxTime[k] + 1 ELSE ctxTime[k]]
  /\ UNCHANGED <<mounted, speed, pc, outCtx, inCtx, stream, transport, timer,
                 capture, refs, flags, play>>
  /\ UNCHANGED io

\* A threshold of 0.1 instead of 0.01.
aboveTenth(v) == v * 10 > 255

\* outputVol > 0.01, outputVol being the mean byte v over 255.
aboveThreshold(v) == v * 100 > 255

\* A level that is the mean byte, not divided by 255.
levelNotNormalised(analyser, avg) == IF analyser # 0 THEN avg * 255 ELSE 0

\* The level read through an analyser ref: avg / 255, the mean byte avg of
\* getByteFrequencyData standing for it, and 0 when the ref is null.
level(analyser, avg) == IF analyser # 0 THEN avg ELSE 0

\* One run of the interval callback of invocation k.  a and b are the mean
\* bytes the two analysers report; a level is its mean byte over 255, kept
\* here as the mean byte, so level > 0.01 reads byte * 100 > 255.
VolumeInterval(k, a, b) ==
  /\ disconnectRun' = 0
  /\ timer[k] = "active"
  /\ LET inputVol == level(inputAnalyserRef, a)
         outputVol == level(outputAnalyserRef, b)
     IN /\ volumeLevels' = [input |-> inputVol, output |-> outputVol]
        /\ isSpeaking' = aboveThreshold(outputVol)
  /\ UNCHANGED <<mounted, speed, objs, refs, isConnected, isListening,
                 error, play>>
  /\ UNCHANGED io

\* --------------------------------------------------------------- uplink
\* Callbacks run on resolution, but only the one registered last.
thenLastOnly(s, q) == IF q = <<>> THEN s ELSE Append(s, q[Len(q)])

\* The callbacks registered with then() on a pending promise run in the order
\* of their registration when it resolves; each hands its frame to
\* session.sendRealtimeInput.  s are the frames sent so far, q the waiting.
then(s, q) == s \o q

\* An onaudioprocess that sends through whatever the promise is.
OnAudioProcessSendsAtOnce(k) ==
  /\ disconnectRun' = 0
  /\ capture[k] = "attached"
  /\ inCtx[captureCtx[k]] = "open"
  /\ captured[k] < MaxFrames
  /\ captured' = [captured EXCEPT ![k] = captured[k] + 1]
  /\ sent' = [sent EXCEPT ![k] =
               Append(sent[k], [n |-> captured[k] + 1, queued |-> FALSE])]
  /\ UNCHANGED <<mounted, speed, objs, refs, flags, play, captureCtx,
                 eventDriven, resolved, pending, pcm, studio>>

\* onaudioprocess of the processor installed by onopen of invocation k: the
\* n-th frame is encoded and its send is chained on the promise of the
\* transport of k.  On a resolved promise the callback runs before any other
\* event is handled; on a pending one it waits.  queued records which.
OnAudioProcess(k) ==
  /\ disconnectRun' = 0
  /\ capture[k] = "attached"
  /\ inCtx[captureCtx[k]] = "open"
  /\ captured[k] < MaxFrames
  /\ captured' = [captured EXCEPT ![k] = captured[k] + 1]
  /\ LET f == [n |-> captured[k] + 1, queued |-> ~resolved[k]]
     IN IF resolved[k]
          THEN /\ sent' = [sent EXCEPT ![k] = then(sent[k], <<f>>)]
               /\ UNCHANGED pending
          ELSE /\ pending' = [pending EXCEPT ![k] = Append(pending[k], f)]
               /\ UNCHANGED sent
  /\ UNCHANGED <<mounted, speed, objs, refs, flags, play, captureCtx,
                 eventDriven, resolved, pcm, studio>>

\* The promise returned by ai.live.connect for invocation k resolves with the
\* session, once the transport has opened.
SessionResolved(k) ==
  /\ disconnectRun' = 0
  /\ transport[k] = "open"
  /\ ~resolved[k]
  /\ resolved' = [resolved EXCEPT ![k] = TRUE]
  /\ sent' = [sent EXCEPT ![k] = then(sent[k], pending[k])]
  /\ pending' = [pending EXCEPT ![k] = <<>>]
  /\ UNCHANGED <<mounted, speed, objs, refs, flags, play, captureCtx,
                 eventDriven, captured, pcm, studio>>

\* ------------------------------------------------------------ PCM framer
\* A floating-point sample is kept as its numerator over Full, which is
\* SubSteps units to one 16-bit quantization step: 1.0 is Full, 1/32768 is
\* SubSteps.
Int16Steps == 32768
Full == Int16Steps * SubSteps

\* The 16-bit levels around which samples are drawn: zero, one step, the
\* byte boundaries, half scale and full scale.
Levels16 == {0, 1, 255, 256, 16384, 32767, 32768}

Samples ==
  {x \in {sg * (q * SubSteps + e) :
            sg \in {-1, 1}, q \in Levels16, e \in (0 - 1)..1} :
     x >= 0 - Full /\ x <= Full}

Frames == UNION {[1..n -> Samples] : n \in 0..MaxSamples}

\* Quantization that does not clamp: full scale wraps to the bottom.
quantizeWraps(x) ==
  LET v == IF x >= 0 THEN x \div SubSteps ELSE 0 - ((0 - x) \div SubSteps)
  IN ((v + Int16Steps) % (2 * Int16Steps)) - Int16Steps

\* A sample times 32768, its fraction dropped, clamped to a signed 16-bit
\* integer.
quantize(x) ==
  LET v == IF x >= 0 THEN x \div SubSteps ELSE 0 - ((0 - x) \div SubSteps)
  IN IF v > Int16Steps - 1 THEN Int16Steps - 1
     ELSE IF v < 0 - Int16Steps THEN 0 - Int16Steps ELSE v

\* The two bytes of a signed 16-bit integer, low byte first.
int16Bytes(q) ==
  LET u == (q + 2 * Int16Steps) % (2 * Int16Steps)
  IN <<u % 256, u \div 256>>

RECURSIVE frameBytes(_)
frameBytes(data) ==
  IF data = <<>> THEN <<>>
  ELSE int16Bytes(quantize(Head(data))) \o frameBytes(Tail(data))

\* base64: three bytes to four 6-bit characters, 64 standing for the pad.
RECURSIVE encode(_)
encode(b) ==
  IF Len(b) = 0 THEN <<>>
  ELSE IF Len(b) = 1 THEN <<b[1] \div 4, (b[1] % 4) * 16, 64, 64>>
  ELSE IF Len(b) = 2
    THEN <<b[1] \div 4, (b[1] % 4) * 16 + b[2] \div 16, (b[2] % 16) * 4, 64>>
  ELSE <<b[1] \div 4, (b[1] % 4) * 16 + b[2] \div 16,
         (b[2] % 16) * 4 + b[3] \div 64, b[3] % 64>>
         \o encode(SubSeq(b, 4, Len(b)))

\* base64 back to bytes.
RECURSIVE decode(_)
decode(c) ==
  IF Len(c) < 4 THEN <<>>
  ELSE LET b1 == c[1] * 4 + c[2] \div 16
           b2 == (c[2] % 16) * 16 + c[3] \div 4
           b3 == (c[3] % 4) * 64 + c[4]
       IN IF c[3] = 64 THEN <<b1>>
          ELSE IF c[4] = 64 THEN <<b1, (c[2] % 16) * 16 + c[3] \div 4>>
          ELSE <<b1, b2, b3>> \o decode(SubSeq(c, 5, Len(c)))

\* createPcmBlob: the frame quantized, as bytes, base64-encoded and tagged.
createPcmBlob(data) ==
  [data |-> encode(frameBytes(data)), mimeType |-> "audio/pcm;rate=16000"]

\* The signed 16-bit integers of a byte sequence, low byte first, each over
\* 32768 as a sample.
RECURSIVE bytesSamples(_)
bytesSamples(b) ==
  IF Len(b) < 2 THEN <<>>
  ELSE LET u == b[1] + 256 * b[2]
           q == IF u >= Int16Steps THEN u - 2 * Int16Steps ELSE u
       IN <<q * SubSteps>> \o bytesSamples(SubSeq(b, 3, Len(b)))

\* The samples of the buffer decodeAudioData builds from a payload at rate r.
decodeSamples(payload, r) ==
  [sampleRate |-> r, samples |-> bytesSamples(decode(payload))]

\* createPcmBlob applied to the captured frame.
CreatePcmBlob ==
  /\ pcmBlob = NoBlob
  /\ pcmBlob' = createPcmBlob(inputData)
  /\ UNCHANGED <<mounted, speed, objs, refs, flags, play, disconnectRun,
                 captureCtx, eventDriven, uplink, inputData, audioBuffer,
                 studio>>

\* decodeAudioData applied to the bytes of the blob at the rate r.
DecodeAudioData(r) ==
  /\ pcmBlob # NoBlob
  /\ audioBuffer = NoBuffer
  /\ audioBuffer' = decodeSamples(pcmBlob.data, r)
  /\ UNCHANGED <<mounted, speed, objs, refs, flags, play, disconnectRun,
                 captureCtx, eventDriven, uplink, inputData, pcmBlob,
                 studio>>

\* ---------------------------------------------------------- story player
\* The part of the state the player's handlers read and write, as one record.
PCur ==
  [isPlaying |-> isPlaying, isPaused |-> isPaused,
   voiceSourceRef |-> voiceSourceRef, isManualStopRef |-> isManualStopRef,
   savedOffsetRef |-> savedOffsetRef, startTimeRef |-> startTimeRef,
   voiceSource |-> voiceSource, stoppedManually |-> stoppedManually,
   startOffset |-> startOffset]

PBecomes(p) ==
  /\ isPlaying' = p.isPlaying /\ isPaused' = p.isPaused
  /\ voiceSourceRef' = p.voiceSourceRef
  /\ isManualStopRef' = p.isManualStopRef
  /\ savedOffsetRef' = p.savedOffsetRef /\ startTimeRef' = p.startTimeRef
  /\ voiceSource' = p.voiceSource /\ stoppedManually' = p.stoppedManually
  /\ startOffset' = p.startOffset

\* source.stop(): a playing source stops and its ended event is queued; a
\* source that has already run out is left as it is.
stop(status) == IF status = "playing" THEN "ending" ELSE status

\* A stopPlayback that keeps the saved offset on a reset.
stopPlaybackKeepsOffset(reset, p) ==
  LET a == IF p.voiceSourceRef # 0
           THEN [p EXCEPT !.isManualStopRef = TRUE,
                          !.voiceSource[p.voiceSourceRef] = stop(@),
                          !.stoppedManually = @ \cup {p.voiceSourceRef},
                          !.voiceSourceRef = 0]
           ELSE p
      b == [a EXCEPT !.isPlaying = FALSE]
  IN  IF reset THEN [b EXCEPT !.isPaused = FALSE] ELSE b

\* stopPlayback(reset).
stopPlayback(reset, p) ==
  LET a == IF p.voiceSourceRef # 0
           THEN [p EXCEPT !.isManualStopRef = TRUE,
                          !.voiceSource[p.voiceSourceRef] = stop(@),
                          !.stoppedManually = @ \cup {p.voiceSourceRef},
                          !.voiceSourceRef = 0]
           ELSE p
      b == [a EXCEPT !.isPlaying = FALSE]
  IN  IF reset THEN [b EXCEPT !.isPaused = FALSE, !.savedOffsetRef = 0]
               ELSE b

\* The playbackRate of a story source: never written, so the default.
StoryRate == 1

\* (currentTime - startTimeRef.current) * playbackRate at the clock t.
elapsed(t, p) == (t - p.startTimeRef) * StoryRate

\* pausePlayback() at the clock t.
pausePlayback(t, p) ==
  IF ~p.isPlaying \/ p.voiceSourceRef = 0
  THEN p
  ELSE LET q == [p EXCEPT !.savedOffsetRef = @ + elapsed(t, p)]
       IN  [stopPlayback(FALSE, q) EXCEPT !.isPaused = TRUE]

\* playAudioData(data, offset) at the clock t, s being the source it makes.
playAudioData(offset, s, t, p) ==
  LET a == IF p.voiceSourceRef # 0 THEN stopPlayback(FALSE, p) ELSE p
  IN  [a EXCEPT !.isManualStopRef = FALSE,
                !.voiceSource[s] = "playing",
                !.startOffset = offset,
                !.startTimeRef = t,
                !.voiceSourceRef = s,
                !.isPlaying = TRUE,
                !.isPaused = FALSE]

\* source.onended of any source.
onended(p) ==
  IF ~p.isManualStopRef
  THEN [p EXCEPT !.isPlaying = FALSE, !.isPaused = FALSE,
                 !.savedOffsetRef = 0]
  ELSE p

\* The source the next playAudioData makes.
NextSource == Cardinality({s \in Sources : voiceSource[s] # "none"}) + 1

\* The play button (disabled while isPlaying) with audio to play.
PlayButton ==
  /\ ~isPlaying
  /\ NextSource \in Sources
  /\ PBecomes(playAudioData(savedOffsetRef, NextSource, storyTime, PCur))
  /\ UNCHANGED <<hook, isLoading, storyTime, casting, podcast, preview, app>>

\* The pause button (disabled unless isPlaying).
PauseButton ==
  /\ isPlaying
  /\ PBecomes(pausePlayback(storyTime, PCur))
  /\ UNCHANGED <<hook, isLoading, storyTime, casting, podcast, preview, app>>

\* The stop button.
StopButton ==
  /\ PBecomes(stopPlayback(TRUE, PCur))
  /\ UNCHANGED <<hook, isLoading, storyTime, casting, podcast, preview, app>>

\* handleGenerate up to its first await.
HandleGenerate ==
  /\ ~isLoading
  /\ isLoading' = TRUE
  /\ PBecomes(stopPlayback(TRUE, PCur))
  /\ UNCHANGED <<hook, storyTime, casting, podcast, preview, app>>

\* handleGenerate after the synthesis and the save: the new audio is played.
GenerateDone ==
  /\ isLoading
  /\ NextSource \in Sources
  /\ isLoading' = FALSE
  /\ PBecomes(playAudioData(0, NextSource, storyTime, PCur))
  /\ UNCHANGED <<hook, storyTime, casting, podcast, preview, app>>

\* handleGenerate when the synthesis gave no audio or threw.
GenerateFails ==
  /\ isLoading
  /\ isLoading' = FALSE
  /\ UNCHANGED <<hook, isPlaying, isPaused, voiceSourceRef, isManualStopRef,
                 savedOffsetRef, startTimeRef, voiceSource, stoppedManually,
                 startOffset, storyTime, casting, podcast, preview, app>>

\* The source s plays its buffer to the end: its ended event is queued.
SourceRunsOut(s) ==
  /\ voiceSource[s] = "playing"
  /\ voiceSource' = [voiceSource EXCEPT ![s] = "ending"]
  /\ UNCHANGED <<hook, isPlaying, isPaused, isLoading, voiceSourceRef,
                 isManualStopRef, savedOffsetRef, startTimeRef,
                 stoppedManually, startOffset, storyTime, casting, podcast, preview, app>>

\* The queued ended event of the source s is delivered.
EndedEvent(s) ==
  /\ voiceSource[s] = "ending"
  /\ PBecomes([onended(PCur) EXCEPT !.voiceSource[s] = "ended"])
  /\ UNCHANGED <<hook, isLoading, storyTime, casting, podcast, preview, app>>

\* The clock of the story player's audio context.
StoryTick ==
  /\ storyTime < MaxStoryTime
  /\ storyTime' = storyTime + 1
  /\ UNCHANGED <<hook, isPlaying, isPaused, isLoading, voiceSourceRef,
                 isManualStopRef, savedOffsetRef, startTimeRef, voiceSource,
                 stoppedManually, startOffset, casting, podcast, preview, app>>

\* ------------------------------------------------------------ story cast
MaxCast == 4
MinCast == 1

\* A handleAddCharacter without the limit.
handleAddCharacterNoLimit(c, id) == c \cup {id}

\* handleAddCharacter, id being the fresh uuid.
handleAddCharacter(c, id) ==
  IF Cardinality(c) >= MaxCast THEN c ELSE c \cup {id}

\* handleDeleteCharacter(id).
handleDeleteCharacter(c, id) ==
  IF Cardinality(c) <= MinCast THEN c ELSE c \ {id}

HandleAddCharacter ==
  /\ castIds < MaxCastIds
  /\ castIds' = castIds + 1
  /\ cast' = handleAddCharacter(cast, castIds + 1)
  /\ UNCHANGED <<hook, player, podcast, preview, app>>

HandleDeleteCharacter(id) ==
  /\ cast' = handleDeleteCharacter(cast, id)
  /\ UNCHANGED <<hook, player, castIds, podcast, preview, app>>

\* --------------------------------------------------- podcast TTS retry
\* The default of the retries parameter, the only value it is called with.
Retries == 3

\* The errors generateContent rejects with.
Errors == {"429", "500", "503"}

\* A for loop that never gives up.
forLoopUnbounded(t) == [t EXCEPT !.pc = "calling"]

\* The head of the for loop, and the throw after it.
forLoop(t) ==
  IF t.i < Retries
  THEN [t EXCEPT !.pc = "calling"]
  ELSE [t EXCEPT !.pc = "thrown", !.thrown = t.lastError]

\* callTTSWithRetry(ai, prompt) is called for the next turn of the script.
CallTTSWithRetry ==
  /\ tts.pc \in {"idle", "returned"}
  /\ ttsTurn < MaxTurns
  /\ ttsTurn' = ttsTurn + 1
  /\ tts' = forLoop(NoCall)
  /\ UNCHANGED <<hook, player, casting, preview, app>>

\* The awaited generateContent resolves: return response.
AttemptResolves ==
  /\ tts.pc = "calling"
  /\ tts' = [tts EXCEPT !.pc = "returned", !.response = tts.i + 1,
                         !.log = Append(@, "ok")]
  /\ UNCHANGED <<hook, player, casting, ttsTurn, preview, app>>

\* The awaited generateContent rejects with e: the catch block up to its
\* await of the timeout.
AttemptRejects(e) ==
  /\ tts.pc = "calling"
  /\ tts' = [tts EXCEPT !.pc = "backoff", !.lastError = e,
                         !.log = Append(@, e),
                         !.delay = 2000 * (tts.i + 1)]
  /\ UNCHANGED <<hook, player, casting, ttsTurn, preview, app>>

\* The timeout of the catch block fires: i++ and the head of the loop.
BackoffElapsed ==
  /\ tts.pc = "backoff"
  /\ tts' = forLoop([tts EXCEPT !.i = @ + 1])
  /\ UNCHANGED <<hook, player, casting, ttsTurn, preview, app>>

\* ------------------------------------------------------- voice preview
Voices == {1, 2, 3}

\* The part of the state handlePreviewVoice reads and writes up to its
\* first await.
VCur == [previewingVoiceId |-> previewingVoiceId, inFlight |-> inFlight]

\* A handlePreviewVoice without its guard.
handlePreviewVoiceUnguarded(v, s) ==
  [s EXCEPT !.previewingVoiceId = v,
            !.inFlight = Append(@, [voice |-> v, at |-> "generate"])]

\* handlePreviewVoice(voice) up to the await of generateContent.
handlePreviewVoice(v, s) ==
  IF s.previewingVoiceId # 0
  THEN s
  ELSE [s EXCEPT !.previewingVoiceId = v,
                 !.inFlight = Append(@, [voice |-> v, at |-> "generate"])]

HandlePreviewVoice(v) ==
  /\ previewRequests < MaxPreviews
  /\ previewRequests' = previewRequests + 1
  /\ previewingVoiceId' = handlePreviewVoice(v, VCur).previewingVoiceId
  /\ inFlight' = handlePreviewVoice(v, VCur).inFlight
  /\ UNCHANGED <<hook, player, casting, podcast, cooldowns, previewPlayed,
                 app>>

\* The finally block of the i-th invocation in flight: the cooldown timeout
\* is set.
finally(i) ==
  /\ inFlight' = RemoveAt(inFlight, i)
  /\ cooldowns' = cooldowns + 1

\* generateContent of the i-th invocation resolves, with or without audio.
PreviewGenerated(i, hasAudio) ==
  /\ i \in 1..Len(inFlight)
  /\ inFlight[i].at = "generate"
  /\ IF hasAudio
     THEN /\ inFlight' = [inFlight EXCEPT ![i].at = "decode"]
          /\ UNCHANGED cooldowns
     ELSE finally(i)
  /\ UNCHANGED <<hook, player, casting, podcast, previewingVoiceId,
                 previewRequests, previewPlayed, app>>

\* decodeAudioData of the i-th invocation resolves: the source is started.
PreviewDecoded(i) ==
  /\ i \in 1..Len(inFlight)
  /\ inFlight[i].at = "decode"
  /\ previewPlayed' = previewPlayed + 1
  /\ finally(i)
  /\ UNCHANGED <<hook, player, casting, podcast, previewingVoiceId,
                 previewRequests, app>>

\* The await the i-th invocation is at rejects: catch, then finally.
PreviewFails(i) ==
  /\ i \in 1..Len(inFlight)
  /\ finally(i)
  /\ UNCHANGED <<hook, player, casting, podcast, previewingVoiceId,
                 previewRequests, previewPlayed, app>>

\* A cooldown timeout fires: setPreviewingVoiceId(null).
CooldownElapsed ==
  /\ cooldowns > 0
  /\ cooldowns' = cooldowns - 1
  /\ previewingVoiceId' = 0
  /\ UNCHANGED <<hook, player, casting, podcast, inFlight, previewRequests,
                 previewPlayed, app>>

\* --------------------------------------------------------- App views
Users == 1..MaxUsers
Agents == 1..MaxAgents
Projects == [id : 1..MaxProjects, agent : Agents, isPodcast : BOOLEAN]
Modes == {"LIVE", "TTS", "PODCAST"}

ACur ==
  [view |-> view, currentUser |-> currentUser, activeAgent |-> activeAgent,
   activeProject |-> activeProject]

ABecomes(a) ==
  /\ view' = a.view /\ currentUser' = a.currentUser
  /\ activeAgent' = a.activeAgent /\ activeProject' = a.activeProject

handleLogin(user, a) == [a EXCEPT !.currentUser = user, !.view = "DASHBOARD"]

\* A handleLogout that keeps the agent and the project.
handleLogoutKeepsAgent(a) == [a EXCEPT !.currentUser = 0, !.view = "AUTH"]

handleLogout(a) ==
  [a EXCEPT !.currentUser = 0, !.view = "AUTH", !.activeAgent = 0,
            !.activeProject = NoProject]

handleCreateNew(a) == [a EXCEPT !.view = "BUILDER"]

handleEditProject(project, a) ==
  [a EXCEPT !.activeAgent = project.agent, !.activeProject = project,
            !.view = IF project.isPodcast THEN "PODCAST" ELSE "STORY_EDITOR"]

handleAgentComplete(agent, selectedMode, a) ==
  LET b == [a EXCEPT !.activeAgent = agent]
  IN  CASE selectedMode = "TTS" ->
             [b EXCEPT !.activeProject = NoProject, !.view = "STORY_EDITOR"]
        [] selectedMode = "PODCAST" ->
             [b EXCEPT !.activeProject = NoProject, !.view = "PODCAST"]
        [] OTHER -> [b EXCEPT !.view = "LIVE"]

handleExitToDashboard(a) ==
  [a EXCEPT !.view = "DASHBOARD", !.activeAgent = 0,
            !.activeProject = NoProject]

\* The render guards: which screen is on display.
Shown(screen) ==
  /\ view = screen
  /\ screen = "DASHBOARD" => currentUser # 0
  /\ screen = "LIVE" => activeAgent # 0
  /\ screen \in {"STORY_EDITOR", "PODCAST"}
       => activeAgent # 0 /\ currentUser # 0

\* Auth.handleAuth up to its await of the user store.
HandleAuth(user) ==
  /\ Shown("AUTH")
  /\ user \notin authPending
  /\ authPending' = authPending \cup {user}
  /\ UNCHANGED <<hook, player, casting, podcast, preview, view, currentUser,
                 activeAgent, activeProject, loggedOut>>

\* The user store answers: onLogin(user).
HandleLogin(user) ==
  /\ user \in authPending
  /\ authPending' = authPending \ {user}
  /\ ABecomes(handleLogin(user, ACur))
  /\ UNCHANGED <<hook, player, casting, podcast, preview, loggedOut>>

HandleLogout ==
  /\ Shown("DASHBOARD")
  /\ ABecomes(handleLogout(ACur))
  /\ loggedOut' = TRUE
  /\ UNCHANGED <<hook, player, casting, podcast, preview, authPending>>

HandleCreateNew ==
  /\ Shown("DASHBOARD")
  /\ ABecomes(handleCreateNew(ACur))
  /\ UNCHANGED <<hook, player, casting, podcast, preview, authPending,
                 loggedOut>>

HandleEditProject(project) ==
  /\ Shown("DASHBOARD")
  /\ ABecomes(handleEditProject(project, ACur))
  /\ UNCHANGED <<hook, player, casting, podcast, preview, authPending,
                 loggedOut>>

HandleAgentComplete(agent, selectedMode) ==
  /\ Shown("BUILDER")
  /\ ABecomes(handleAgentComplete(agent, selectedMode, ACur))
  /\ UNCHANGED <<hook, player, casting, podcast, preview, authPending,
                 loggedOut>>

HandleExitToDashboard ==
  /\ \E screen \in {"BUILDER", "LIVE", "STORY_EDITOR", "PODCAST"} :
       Shown(screen)
  /\ ABecomes(handleExitToDashboard(ACur))
  /\ UNCHANGED <<hook, player, casting, podcast, preview, authPending,
                 loggedOut>>

\* ------------------------------------------------------- specification
Next ==
  \/ \E k \in Inv : Connect(k)
  \/ \E k \in Inv : ConnectContextFails(k)
  \/ \E k \in Inv : MicGranted(k)
  \/ \E k \in Inv : MicGrantedConnectThrows(k)
  \/ \E k \in Inv : MicDenied(k)
  \/ Disconnect
  \/ Unmount
  \/ \E k \in Inv : TransportOpen(k)
  \/ \E k \in Inv : TransportRejected(k)
  \/ \E k \in Inv : TransportError(k)
  \/ \E k \in Inv : TransportClose(k)
  \/ \E k \in Inv, m \in Messages : OnMessage(k, m)
  \/ \E i \in 1..MaxMsgs : DecodeDone(i)
  \/ ClockTick
  \/ \E k \in Inv, a \in Levels, b \in OutputLevels :
       VolumeInterval(k, a, b)
  \/ \E k \in Inv : OnAudioProcess(k)
  \/ \E k \in Inv : SessionResolved(k)
  \/ CreatePcmBlob
  \/ \E r \in {16000, 24000} : DecodeAudioData(r)
  \/ PlayButton
  \/ PauseButton
  \/ StopButton
  \/ HandleGenerate
  \/ GenerateDone
  \/ GenerateFails
  \/ \E s \in Sources : SourceRunsOut(s)
  \/ \E s \in Sources : EndedEvent(s)
  \/ StoryTick
  \/ HandleAddCharacter
  \/ \E id \in 1..MaxCastIds : HandleDeleteCharacter(id)
  \/ CallTTSWithRetry
  \/ AttemptResolves
  \/ \E e \in Errors : AttemptRejects(e)
  \/ BackoffElapsed
  \/ \E v \in Voices : HandlePreviewVoice(v)
  \/ \E i \in 1..MaxPreviews, hasAudio \in BOOLEAN :
       PreviewGenerated(i, hasAudio)
  \/ \E i \in 1..MaxPreviews : PreviewDecoded(i)
  \/ \E i \in 1..MaxPreviews : PreviewFails(i)
  \/ CooldownElapsed
  \/ \E user \in Users : HandleAuth(user)
  \/ \E user \in Users : HandleLogin(user)
  \/ HandleLogout
  \/ HandleCreateNew
  \/ \E project \in Projects : HandleEditProject(project)
  \/ \E agent \in Agents, selectedMode \in Modes :
       HandleAgentComplete(agent, selectedMode)
  \/ HandleExitToDashboard

Spec == Init /\ [][Next]_vars

\* The session lifecycle alone: connect, cleanup, the transport callbacks and
\* the interval, with no inbound event and the clock standing still.
NextSession ==
  \/ \E k \in Inv : Connect(k)
  \/ \E k \in Inv : ConnectContextFails(k)
  \/ \E k \in Inv : MicGranted(k)
  \/ \E k \in Inv : MicGrantedConnectThrows(k)
  \/ \E k \in Inv : MicDenied(k)
  \/ Disconnect
  \/ Unmount
  \/ \E k \in Inv : TransportOpen(k)
  \/ \E k \in Inv : TransportRejected(k)
  \/ \E k \in Inv : TransportError(k)
  \/ \E k \in Inv : TransportClose(k)
  \/ \E k \in Inv, a \in Levels, b \in Levels : VolumeInterval(k, a, b)

\* No lifecycle step reads the persona; it is kept at the default speed 1.0.
InitSession == Init /\ speed = 2

SpecSession == InitSession /\ [][NextSession]_vars

\* The inbound events that bear on the timeline: the turnComplete flag only
\* writes isSpeaking.
PlaybackMessages == {m \in Messages : ~m.turnComplete}

\* The playback timeline of one session: the steps that read or write the
\* output context ref, its clock, nextStartTimeRef and the suspended
\* handlers.  cleanup() comes in through the unmount effect; every other
\* caller of cleanup() acts on these variables as it does.
NextPlayback ==
  \/ Connect(1)
  \/ MicGranted(1)
  \/ TransportOpen(1)
  \/ Unmount
  \/ \E m \in PlaybackMessages : OnMessage(1, m)
  \/ \E i \in 1..MaxMsgs : DecodeDone(i)
  \/ ClockTick

SpecPlayback == Init /\ [][NextPlayback]_vars

\* The capture side of one session: it is opened and torn down while the
\* processor delivers frames and the promise of the transport resolves.  The
\* frames of a session are chained on the promise of its own transport, so
\* another session does not bear on their order.
NextUplink ==
  \/ Connect(1)
  \/ MicGranted(1)
  \/ TransportOpen(1)
  \/ TransportClose(1)
  \/ TransportError(1)
  \/ Disconnect
  \/ Unmount
  \/ OnAudioProcess(1)
  \/ SessionResolved(1)

SpecUplink == InitSession /\ [][NextUplink]_vars

\* The inbound events of one session with all their flags, next to the
\* interval callback and cleanup(); the device clock stands still.  The
\* output level read by the callback is 0, just below 0.01 or above it.
NextEvents ==
  \/ Connect(1)
  \/ MicGranted(1)
  \/ TransportOpen(1)
  \/ Disconnect
  \/ Unmount
  \/ \E m \in Messages : OnMessage(1, m)
  \/ \E i \in 1..MaxMsgs : DecodeDone(i)
  \/ \E a \in Levels, b \in OutputLevels : VolumeInterval(1, a, b)

SpecEvents == InitSession /\ [][NextEvents]_vars

\* The volume telemetry of one session: the interval callback reads mean
\* bytes from silence up to the full byte, between connect and cleanup.
NextTelemetry ==
  \/ Connect(1)
  \/ ConnectContextFails(1)
  \/ MicGranted(1)
  \/ MicDenied(1)
  \/ TransportOpen(1)
  \/ TransportError(1)
  \/ TransportClose(1)
  \/ Disconnect
  \/ Unmount
  \/ \E a \in Bytes, b \in Bytes : VolumeInterval(1, a, b)

SpecTelemetry == InitSession /\ [][NextTelemetry]_vars

\* The framer alone: a frame of samples is encoded, then decoded.
InitPcm == InitHook /\ speed = 2 /\ inputData \in Frames

NextPcm ==
  \/ CreatePcmBlob
  \/ \E r \in {16000, 24000} : DecodeAudioData(r)

SpecPcm == InitPcm /\ [][NextPcm]_vars

\* ===================================================================
\* Properties
\* ===================================================================

\* A connect() invocation is suspended in getUserMedia, or its transport is
\* the current one and has not opened yet.
\* The story player alone.
NextStory ==
  \/ PlayButton
  \/ PauseButton
  \/ StopButton
  \/ HandleGenerate
  \/ GenerateDone
  \/ GenerateFails
  \/ \E s \in Sources : SourceRunsOut(s)
  \/ \E s \in Sources : EndedEvent(s)
  \/ StoryTick

SpecStory == InitSession /\ [][NextStory]_vars

\* The cast editor alone.
NextCast ==
  \/ HandleAddCharacter
  \/ \E id \in 1..MaxCastIds : HandleDeleteCharacter(id)

SpecCast == InitSession /\ [][NextCast]_vars

\* The podcast retry alone.  Every generateContent call settles and every
\* timeout fires.
AttemptSettles == AttemptResolves \/ \E e \in Errors : AttemptRejects(e)

NextPodcast ==
  \/ CallTTSWithRetry
  \/ AttemptResolves
  \/ \E e \in Errors : AttemptRejects(e)
  \/ BackoffElapsed

SpecPodcast ==
  /\ InitSession
  /\ [][NextPodcast]_vars
  /\ WF_vars(AttemptSettles)
  /\ WF_vars(BackoffElapsed)

\* The voice preview alone.  Every awaited call settles and every timeout
\* fires.
PreviewSettles ==
  \E i \in 1..MaxPreviews :
    \/ \E hasAudio \in BOOLEAN : PreviewGenerated(i, hasAudio)
    \/ PreviewDecoded(i)
    \/ PreviewFails(i)

NextPreview ==
  \/ \E v \in Voices : HandlePreviewVoice(v)
  \/ \E i \in 1..MaxPreviews, hasAudio \in BOOLEAN :
       PreviewGenerated(i, hasAudio)
  \/ \E i \in 1..MaxPreviews : PreviewDecoded(i)
  \/ \E i \in 1..MaxPreviews : PreviewFails(i)
  \/ CooldownElapsed

SpecPreview ==
  /\ InitSession
  /\ [][NextPreview]_vars
  /\ WF_vars(PreviewSettles)
  /\ WF_vars(CooldownElapsed)

\* The App view machine alone.
NextApp ==
  \/ \E user \in Users : HandleAuth(user)
  \/ \E user \in Users : HandleLogin(user)
  \/ HandleLogout
  \/ HandleCreateNew
  \/ \E project \in Projects : HandleEditProject(project)
  \/ \E agent \in Agents, selectedMode \in Modes :
       HandleAgentComplete(agent, selectedMode)
  \/ HandleExitToDashboard

SpecApp == InitSession /\ [][NextApp]_vars

Connecting ==
  \E j \in Inv :
    \/ pc[j] = "awaitMic"
    \/ sessionRef = j /\ transport[j] = "connecting"

\* This step is the synchronous start of a connect() invocation.
ConnectStep == \E k \in Inv : pc[k] = "idle" /\ pc'[k] # "idle"

\* Nothing acquired by invocation k is still held.
TornDown(k) ==
  /\ stream[k] # "live"
  /\ outCtx[k] # "open" /\ inCtx[k] # "open"
  /\ timer[k] # "active"

ZeroFlags ==
  /\ ~isConnected /\ ~isListening /\ ~isSpeaking
  /\ volumeLevels = ZeroVolume

\* C1: once the component is unmounted (cleanup has run, connect() cannot be
\* invoked again) and no connect() is still suspended, no microphone stream
\* acquired by the hook is live.
C1_NoLiveMicAfterCleanup ==
  (~mounted /\ \A k \in Inv : pc[k] # "awaitMic")
    => \A k \in Inv : stream[k] # "live"

\* C2: a connect() invoked while a connect() is in progress or the session
\* is open creates no context, stream, transport or timer and leaves every
\* ref as it is.
C2_ConnectWhileActiveIsNoOp ==
  [][(ConnectStep /\ (Connecting \/ isConnected))
       => UNCHANGED <<outCtx, inCtx, stream, transport, timer, refs>>]_vars

\* This step starts a source: DecodeDone reaching source.start.
StartStep == started' = started + 1

\* C3: when a source is started after another one with no interruption
\* handled in between, the start time passed is at or after the earlier
\* source's start time plus its duration over its playback rate.
C3_StartsDoNotOverlap ==
  [][(StartStep /\ started > 0 /\ ~last'.reset)
       => last'.start >= last.start + Span(last.dur, last.rate)]_vars

\* C3 witness: a second source has been started with no interruption since
\* the first, the clock having reached the end of the first by then.
C3_Witness ==
  started >= 2 /\ ~last.reset /\ last.run = 1 /\ last.start > 0

\* C4: a source started while the device clock is before nextStartTime gets
\* the earlier source's start plus its duration over its rate as start time;
\* and after a run of sources all started ahead of the clock, nextStartTime
\* is the start of the first of the run plus the sum of duration over rate.
C4_BackToBack ==
  [][StartStep =>
       /\ (started > 0 /\ last'.at < last'.start)
            => last'.start = last.start + Span(last.dur, last.rate)
       /\ ~resetSinceStart'
            => nextStartTimeRef' = last'.runStart + last'.runSpan]_vars

\* C4 witness: three sources in a row were started ahead of the clock, the
\* clock having moved on after the first arrived.
C4_Witness ==
  last.run >= 3 /\ last.at > 0 /\ last.at < last.start

\* C5: the first audio event to arrive after an interruption is started at
\* the device clock time of its arrival.
C5_StartsAtArrivalAfterInterruption ==
  (started > 0 /\ last.first) => last.start = last.arr

\* C6: disconnect() leaves the flags at zero from every state, a connect()
\* having succeeded or not; a further cleanup() would find nothing to
\* release, and a disconnect() right after a disconnect() changes nothing.
C6_DisconnectIdempotent ==
  [][Disconnect =>
       /\ ZeroFlags'
       /\ (cleanup(Cur) = Cur)'
       /\ (disconnectRun >= 1
             => UNCHANGED <<mounted, speed, objs, refs, flags, play,
                            io>>)]_vars

\* C6 witness: disconnect() has been called twice in a row on a hook whose
\* session had opened.
C6_Witness ==
  /\ disconnectRun = 2
  /\ \E k \in Inv : transport[k] = "open" /\ stream[k] = "stopped"

\* C7: when getUserMedia rejects in invocation k, the step leaves the error
\* set, isConnected false and both contexts of invocation k closed.
C7_MicDeniedTearsDown ==
  [][\A k \in Inv :
       (pc[k] = "awaitMic" /\ pc'[k] = "micDenied")
         => /\ error' # NoError
            /\ ~isConnected'
            /\ outCtx'[k] # "open" /\ inCtx'[k] # "open"]_vars

\* C8: once the promise of the transport of invocation k has rejected, the
\* error is set and everything invocation k acquired is released and the
\* transport handle is cleared.
C8_HandshakeRejectedTearsDown ==
  \A k \in Inv :
    transport[k] = "rejected"
      => error # NoError /\ TornDown(k) /\ sessionRef # k

\* C9: onerror or onclose of the transport of an open session leaves
\* everything that session acquired released and the flags zeroed, and
\* onerror leaves the error set.
C9_TransportEndTearsDown ==
  [][\A k \in Inv :
       (transport[k] = "open" /\ transport'[k] \in {"errored", "closed"})
         => /\ TornDown(k)'
            /\ ZeroFlags'
            /\ (transport'[k] = "errored" => error' # NoError)]_vars

\* C10: at most one microphone stream, one pair of contexts, one transport
\* and one timer are held at any time.
C10_OneSessionHeld ==
  /\ Cardinality({k \in Inv : stream[k] = "live"}) <= 1
  /\ Cardinality({k \in Inv : outCtx[k] = "open"}) <= 1
  /\ Cardinality({k \in Inv : inCtx[k] = "open"}) <= 1
  /\ Cardinality({k \in Inv : transport[k] \in {"connecting", "open"}}) <= 1
  /\ Cardinality({k \in Inv : timer[k] = "active"}) <= 1

\* The frames of s carry the numbers 1, 2, ..., Len(s) in this order.
InCaptureOrder(s) == \A i \in 1..Len(s) : s[i].n = i

\* C11: for every session, the frames handed to the transport followed by the
\* frames still waiting for the promise are the captured frames, each once
\* and in the order of capture; once the promise has resolved none waits.
C11_FramesSentInCaptureOrder ==
  \A k \in Inv :
    /\ InCaptureOrder(sent[k] \o pending[k])
    /\ Len(sent[k]) + Len(pending[k]) = captured[k]
    /\ resolved[k] => pending[k] = <<>>

\* C11 witness: two frames captured before the promise resolved and one
\* captured after it have all been handed to the transport.
C11_Witness ==
  \E k \in Inv :
    /\ Len(sent[k]) >= 3
    /\ sent[k][1].queued /\ sent[k][2].queued /\ ~sent[k][3].queued

\* C12: when a source is started right after another one, the one whose
\* audio event arrived earlier (at an earlier device clock time) has the start
\* time that is not the later of the two.
C12_ScheduledInArrivalOrder ==
  [][(StartStep /\ started > 0) =>
       /\ (last.arr < last'.arr => last.start <= last'.start)
       /\ (last'.arr < last.arr => last'.start <= last.start)]_vars

\* The handler of m takes the audio branch: a payload and an output context.
HasAudio(m) == m.audio # 0 /\ audioContextRef # 0

Abs(x) == IF x >= 0 THEN x ELSE 0 - x

\* C14: once a frame has been encoded and the bytes decoded, the buffer has
\* as many samples as the frame and each is within one quantization step
\* (SubSteps units) of the sample it came from.
C14_RoundTripWithinOneStep ==
  audioBuffer # NoBuffer =>
    /\ Len(audioBuffer.samples) = Len(inputData)
    /\ \A i \in 1..Len(inputData) :
         Abs(audioBuffer.samples[i] - inputData[i]) <= SubSteps

\* C14 witness: a frame holding full scale 1.0, which has to be clamped, and
\* a sample between two levels has made the round trip.
C14_Witness ==
  /\ audioBuffer # NoBuffer
  /\ Len(inputData) = 2
  /\ inputData[1] = Full
  /\ inputData[2] % SubSteps # 0
  /\ audioBuffer.samples[1] = Full - SubSteps

\* cleanup() has run on the session of invocation k: its transport exists,
\* the handle no longer points at it and what it acquired is released.
Stale(k) == transport[k] # "none" /\ sessionRef # k /\ TornDown(k)

\* C15: onopen, onmessage and a decode completion of a transport whose
\* session has been torn down change none of isConnected, isListening,
\* isSpeaking and nextStartTimeRef and start no source.
C15_StaleCallbacksDiscarded ==
  [][\A k \in Inv :
       (/\ Stale(k)
        /\ \/ TransportOpen(k)
           \/ \E m \in Messages : OnMessage(k, m)
           \/ \E i \in 1..MaxMsgs : DecodeDone(i) /\ decoding[i].tr = k)
         => UNCHANGED <<isConnected, isListening, isSpeaking,
                        nextStartTimeRef, started>>]_vars

\* C16: the start time passed to the latest source.start call is at or after
\* the device clock at that call.
C16_NeverStartedInThePast ==
  started > 0 => last.start >= last.at

\* This step handles the interrupted flag of an event: at once when the event
\* takes no audio branch, after the source is started when it does.
InterruptionStep ==
  \/ \E k \in Inv, m \in Messages :
       OnMessage(k, m) /\ ~HasAudio(m) /\ m.interrupted
  \/ \E i \in 1..MaxMsgs :
       DecodeDone(i) /\ StartStep /\ decoding[i].interrupted

\* C17: nextStartTimeRef does not decrease over a step that handles no
\* interruption, and a step that handles one leaves it at the current time
\* of the output context.
C17_MonotoneButForResetToNow ==
  [][/\ ~InterruptionStep => nextStartTimeRef' >= nextStartTimeRef
     /\ (InterruptionStep /\ audioContextRef # 0)
          => nextStartTimeRef' = ctxTime[audioContextRef]]_vars

\* The processor installed by onopen of invocation k can still deliver
\* frames: it is attached and its context is running.
CaptureLive(k) == capture[k] = "attached" /\ inCtx[captureCtx[k]] = "open"

\* C18: disconnect() from an open session leaves the transport handle
\* cleared and no interval timer active, no microphone stream live, no audio
\* context open and no processor able to deliver a frame.
C18_DisconnectReleasesOpenSession ==
  [][(Disconnect /\ isConnected) =>
       /\ sessionRef' = 0
       /\ \A k \in Inv :
            /\ timer'[k] # "active"
            /\ stream'[k] # "live"
            /\ outCtx'[k] # "open" /\ inCtx'[k] # "open"
            /\ ~CaptureLive(k)']_vars

\* C19: every run of the interval callback leaves isSpeaking true exactly
\* when the output level it publishes is above 0.01 (mean byte times 100
\* above 255), whatever the inbound events have made of the flag before.
C19_TickSetsSpeakingFromLevel ==
  [][\A k \in Inv, a \in Levels, b \in OutputLevels :
       VolumeInterval(k, a, b)
         => isSpeaking' = (volumeLevels'.output * 100 > 255)]_vars

\* C19 witness: the latest event to write the flag was a turnComplete, the
\* output level published since is above the threshold and the flag is true.
C19_Witness ==
  /\ isConnected /\ isSpeaking
  /\ eventDriven = "turnComplete"
  /\ volumeLevels.output * 100 > 255

\* C20: the handling of an event that carries the interrupted flag alone
\* changes nextStartTimeRef and nothing else of the hook: no source started
\* earlier is touched, no handler suspended in a decode is dropped, and the
\* flags, the volume sample, the refs and the objects stay as they are.
C20_InterruptionChangesOnlyNextStart ==
  [][\A k \in Inv :
       OnMessage(k, [audio |-> 0, interrupted |-> TRUE,
                     turnComplete |-> FALSE])
         => /\ nextStartTimeRef' = 0
            /\ UNCHANGED <<mounted, speed, objs, refs, flags, decoding,
                           started, last>>]_vars

\* C20 witness: an interruption was handled after a source had been started
\* and while another handler was suspended in its decode, with a backlog on
\* the timeline before it; the flag still says speaking.
C20_Witness ==
  /\ resetSinceStart /\ started >= 1 /\ Len(decoding) >= 1
  /\ last.start + Span(last.dur, last.rate) > 0
  /\ nextStartTimeRef = 0
  /\ isSpeaking /\ isConnected

\* This step runs cleanup(): disconnect, the unmount effect, the catch block
\* of connect, onclose or onerror.
CleanupStep ==
  \/ Disconnect
  \/ Unmount
  \/ \E k \in Inv :
       \/ ConnectContextFails(k) \/ MicGrantedConnectThrows(k)
       \/ MicDenied(k) \/ TransportError(k) \/ TransportClose(k)

\* C21: both levels of the published volume sample lie between 0 and 1 (a
\* mean byte of 0..255 over 255); a level read through a null analyser ref is
\* 0; and cleanup() leaves the sample at (0, 0).
C21_VolumeSampleInUnitSquare ==
  [][/\ volumeLevels'.input \in 0..255
     /\ volumeLevels'.output \in 0..255
     /\ \A k \in Inv, a \in Bytes, b \in Bytes :
          VolumeInterval(k, a, b) =>
            /\ inputAnalyserRef = 0 => volumeLevels'.input = 0
            /\ outputAnalyserRef = 0 => volumeLevels'.output = 0
            /\ inputAnalyserRef # 0 => volumeLevels'.input = a
            /\ outputAnalyserRef # 0 => volumeLevels'.output = b
     /\ CleanupStep => volumeLevels' = ZeroVolume]_vars

\* C21 witness: the interval has published full scale on the input and a
\* level just above silence on the output.
C21_Witness ==
  volumeLevels.input = 255 /\ volumeLevels.output = 2 /\ isConnected

\* C22: while isConnected is true the refs hold a live microphone stream,
\* two open audio contexts and the transport handle.
C22_ConnectedHoldsResources ==
  isConnected =>
    /\ streamRef # 0 /\ stream[streamRef] = "live"
    /\ audioContextRef # 0 /\ outCtx[audioContextRef] = "open"
    /\ inputContextRef # 0 /\ inCtx[inputContextRef] = "open"
    /\ sessionRef # 0

\* C23: a session whose processor has delivered a frame has had its onopen
\* run (which installs the processor) on a transport that was created, and a
\* session with a frame handed to the transport has a resolved promise.
C23_NoFrameBeforeOpen ==
  \A k \in Inv :
    /\ captured[k] > 0
         => capture[k] # "none" /\ transport[k] \notin {"none", "connecting"}
    /\ sent[k] # <<>> => resolved[k]

\* C23 witness: a frame waits on the pending promise of an open transport,
\* none having been sent.
C23_Witness ==
  \E k \in Inv :
    /\ transport[k] = "open" /\ ~resolved[k]
    /\ Len(pending[k]) >= 1 /\ sent[k] = <<>>

\* C30: the playback rate of every started source is not zero and a speed of
\* 0 (or none) gives rate 1.0; the rate the advance divides by is not zero,
\* and the advance for the buffer is positive.
C30_RateNeverZero ==
  started > 0 =>
    /\ last.rate # 0
    /\ speed = 0 => last.rate = 2
    /\ speed # 0 => last.rate = speed
    /\ rate(last.rate) # 0
    /\ advance(last.dur, rate(last.rate)) > 0

\* C30 witness: a source was started for a persona with speed 0.
C30_Witness ==
  started > 0 /\ speed = 0 /\ nextStartTimeRef = last.start + last.dur

\* The ended event of a source stopPlayback has stopped is delivered while
\* the source of a later play is the current one and still playing.
StaleEnded(s) ==
  /\ EndedEvent(s)
  /\ s \in stoppedManually
  /\ voiceSourceRef # 0 /\ voiceSourceRef # s
  /\ voiceSource[voiceSourceRef] = "playing"

\* C24: the ended event of a manually stopped source, delivered while the
\* most recently started source is still playing, leaves isPlaying true and
\* the saved offset as it was.
C24_StaleEndedLeavesNewerPlayback ==
  [][\A s \in Sources :
       StaleEnded(s)
         => /\ isPlaying' = isPlaying
            /\ isPaused' = isPaused
            /\ savedOffsetRef' = savedOffsetRef]_vars

\* The ended event of a source that ran out and was never stopped by hand.
NaturalEnd ==
  \E s \in Sources : EndedEvent(s) /\ s \notin stoppedManually

C27_CastBetweenOneAndFour ==
  [][/\ Cardinality(cast') \in MinCast..MaxCast
     /\ (HandleAddCharacter /\ Cardinality(cast) = MaxCast) => cast' = cast
     /\ (HandleAddCharacter /\ Cardinality(cast) < MaxCast)
          => Cardinality(cast') = Cardinality(cast) + 1
     /\ \A id \in 1..MaxCastIds :
          /\ (HandleDeleteCharacter(id) /\ Cardinality(cast) = MinCast)
               => cast' = cast
          /\ (HandleDeleteCharacter(id) /\ Cardinality(cast) > MinCast)
               => cast' = cast \ {id}]_vars

\* C27 witness: an add was refused at 4 members (4 members, 5 ids made).
C27_Witness ==
  Cardinality(cast) = MaxCast /\ castIds > MaxCast

\* What holds of a callTTSWithRetry at every moment: at most 3 attempts; a
\* success is the last attempt made; it returns the response of that
\* attempt; it throws only after 3 failed attempts, and then the error of
\* the third.
RetrySafe ==
  /\ Len(tts.log) <= Retries
  /\ \A j \in 1..Len(tts.log) : tts.log[j] = "ok" => j = Len(tts.log)
  /\ tts.pc = "returned"
       => /\ tts.log # <<>> /\ tts.log[Len(tts.log)] = "ok"
          /\ tts.response = Len(tts.log)
  /\ tts.pc = "thrown"
       => /\ Len(tts.log) = Retries
          /\ \A j \in 1..Retries : tts.log[j] \in Errors
          /\ tts.thrown = tts.log[Retries]
  /\ tts.pc \in {"calling", "backoff"} => tts.i < Retries

\* C26: callTTSWithRetry makes at most 3 attempts, returns the response of
\* the first successful attempt without further attempts, throws the error
\* of the last attempt when all fail, and always terminates.
C26_BoundedRetryTerminates ==
  /\ []RetrySafe
  /\ (tts.pc \in {"calling", "backoff"}) ~> (tts.pc \in {"returned", "thrown"})

\* C26 witness: the call threw the error of its third attempt, which
\* differs from the error of its second.
C26_Witness ==
  /\ tts.pc = "thrown" /\ tts.thrown = "503"
  /\ tts.log = <<"429", "500", "503">>
  /\ tts.delay = 6000

\* What holds of the previews at every moment: at most one invocation is
\* past the guard and not yet cleared by its cooldown, and
\* previewingVoiceId is set exactly then, to the voice of that invocation.
PreviewSafe ==
  /\ Len(inFlight) + cooldowns <= 1
  /\ previewingVoiceId # 0 <=> Len(inFlight) + cooldowns = 1
  /\ \A i \in 1..Len(inFlight) : inFlight[i].voice = previewingVoiceId

\* C28: at most one preview is in flight; a request made while
\* previewingVoiceId is set changes nothing; previewingVoiceId is
\* eventually cleared after every preview.
C28_OnePreviewAtATime ==
  /\ []PreviewSafe
  /\ [][\A v \in Voices :
          (HandlePreviewVoice(v) /\ previewingVoiceId # 0)
            => UNCHANGED <<previewingVoiceId, inFlight, cooldowns,
                           previewPlayed>>]_vars
  /\ (previewingVoiceId # 0) ~> (previewingVoiceId = 0)

\* C28 witness: a request was refused during the cooldown of a preview
\* that played.
C28_Witness ==
  /\ previewingVoiceId # 0 /\ cooldowns = 1 /\ inFlight = <<>>
  /\ previewPlayed = 1 /\ previewRequests = 2

\* C29: a view other than AUTH has a current user; LIVE, STORY_EDITOR and
\* PODCAST have an active agent; logout gives AUTH with user, agent and
\* project cleared.
C29_ViewsHaveUserAndAgent ==
  [][/\ view' # "AUTH" => currentUser' # 0
     /\ view' \in {"LIVE", "STORY_EDITOR", "PODCAST"} => activeAgent' # 0
     /\ HandleLogout
          => /\ view' = "AUTH" /\ currentUser' = 0
             /\ activeAgent' = 0 /\ activeProject' = NoProject]_vars

\* C29 witness: a project of the second user is open in the podcast view
\* after a logout, the login of the first user still pending.
C29_Witness ==
  /\ loggedOut /\ view = "PODCAST" /\ currentUser = 2
  /\ activeProject # NoProject /\ activeAgent = activeProject.agent
  /\ authPending = {1}

====
